---- MODULE Spec2Model ----
(***************************************************************************)
(* Model of the tracing driver of simsoptpp (src/simsoptpp/tracing.cpp):   *)
(* the trace entry points and the generic adaptive integrator with event   *)
(* detection, solve().                                                     *)
(*                                                                         *)
(* Numbers.  Times are integers.  Angles are integers counted in quarter   *)
(* turns, so 2*M_PI is TwoPi = 4 and M_PI is Pi = 2.  Points (y0, y1) lie   *)
(* on the coordinate axes, where atan2, sqrt, cos and sin are exact.       *)
(*                                                                         *)
(* The field evaluator is external.  Along one trace the right-hand side   *)
(* describes a uniform motion, drawn from bounded sets: every component    *)
(* drifts at a constant rate dydt and, in the Cartesian traces, the point  *)
(* (x, y) turns about the z axis at a constant rate rot.  The stepper      *)
(* follows this motion exactly and its dense output is the motion from the *)
(* start of the step.  The size of an accepted step is chosen by the error *)
(* controller; here it is any h in 1..MaxDt.                               *)
(***************************************************************************)
EXTENDS Integers, Sequences, FiniteSets, TLC

\* ---------------------------------------------------------------- bounds
\* largest tmax a caller passes
MaxT == 2
\* largest accepted step (dtmax)
MaxDt == 2
\* largest size of the reference angle phi_near of a direct call of get_phi
MaxNear == 10

\* ------------------------------------------------------------- constants
\* 2*M_PI in quarter turns
TwoPi == 4
\* M_PI in quarter turns
Pi == 2
\* uintmax_t rootmaxit = 200
RootMaxIt == 200
\* the cap N of the iteration criterion a caller builds
max_iter == 1

\* ------------------------------------------------------- input alphabets
\* initial points stz_init = (s, theta, zeta); s is a perfect square, so that
\* chart 1 is exact
StzVals == {<<4, 1, 0>>}
\* initial parallel velocities vtang
VtangVals == {-1, 0}
\* initial points xyz_init of the Cartesian traces; the second lies on the
\* plane phi = 3
XyzVals == {<<1, 0, 0>>, <<0, -1, 0>>}
\* constant rates of the toroidal angle (zeta, or the angle of (x, y)) and
\* of vpar
ZetaDots == {-1, 2}
VparDots == {1, 2}
\* plane lists (zetas) with their omegas, v-parallel targets, criteria
PhisVals == {<< >>, <<3, 2>>}
OmegaVals == {0, 1}
VparsVals == {<< >>, <<2, 0>>}
\* the omega lists with one omega for every plane of the plane list ph
MatchedOmegas(ph) == {[i \in 1..Len(ph) |-> om] : om \in OmegaVals}
\* the omega lists a caller passes with the plane list ph: a matched list, or
\* a list whose length is not that of ph
OmegasVals(ph) == MatchedOmegas(ph) \cup {<<0>>}
\* the chart selectors, and the selectors a caller passes: 3 names no chart
AxisVals == {0, 1, 2}
AxisArgs == AxisVals \cup {3}
\* mode flags (vacuum, noK).  The Boozer entry points are called with the
\* mode SweptMode and every combination of the other arguments, and with
\* each other mode for one motion and every combination of the arguments
\* they hand on to solve unchanged
ModeVals == {<<v, k>> : v \in BOOLEAN, k \in BOOLEAN}
SweptMode == <<TRUE, FALSE>>
\* criteria lists: "any" is a criterion of any kind, "iter" the iteration
\* criterion with cap max_iter, "null" a null pointer
CriteriaVals == {<< >>, <<"any", "null", "any">>, <<"iter">>}
\* the motions (vtang, rate of zeta, rate of vpar) of the perturbed traces
PerturbedVals == {<<-1, -1, 2>>}
\* initial velocities v_init of the full-orbit traces
VInitVals == {<<0, 1, 0>>}
\* values an uninitialised double can hold
Garbage == {0, 1}
\* the points (x, y) and the reference angles of a direct call of get_phi
PointVals == {<<1, 0>>, <<0, 1>>, <<-1, 0>>, <<0, -1>>, <<0, 0>>}
NearVals == (-MaxNear)..MaxNear

\* ------------------------------------------------------------ arithmetic
Abs(x) == IF x < 0 THEN -x ELSE x

Sign(x) == IF x > 0 THEN 1 ELSE IF x < 0 THEN -1 ELSE 0

\* std::floor(n / d) for d > 0
Floor(n, d) == n \div d

\* std::round(n / d) for d > 0: halves are rounded away from zero
Round(n, d) == IF n >= 0 THEN (2 * n + d) \div (2 * d) ELSE -((2 * (-n) + d) \div (2 * d))

\* sqrt of a perfect square
Sqrt(n) == CHOOSE r \in 0..n : r * r = n

\* cos and sin of an angle in quarter turns
Cos(a) == LET m == a % TwoPi IN IF m = 0 THEN 1 ELSE IF m = 2 THEN -1 ELSE 0

Sin(a) == LET m == a % TwoPi IN IF m = 1 THEN 1 ELSE IF m = 3 THEN -1 ELSE 0

\* atan2(yy, xx) in quarter turns, in (-Pi, Pi], for a point on an axis
Atan2(yy, xx) ==
    IF yy = 0 THEN (IF xx < 0 THEN Pi ELSE 0)
    ELSE IF yy > 0 THEN 1 ELSE -1

\* join<m, n>(a, b)
join(a, b) == a \o b

\* ----------------------------------------------------------- chart maps
\* the ykeep blocks of solve: the state re-expressed in (s, theta, ...)
Canonical(axis, yy) ==
    IF axis = 1
    THEN <<yy[1] * yy[1] + yy[2] * yy[2], Atan2(yy[2], yy[1])>> \o SubSeq(yy, 3, Len(yy))
    ELSE IF axis = 2
    THEN <<Sqrt(yy[1] * yy[1] + yy[2] * yy[2]), Atan2(yy[2], yy[1])>> \o SubSeq(yy, 3, Len(yy))
    ELSE yy

\* the initial chart coordinates the Boozer entry points build from stz_init
ChartInit(axis, s, theta) ==
    IF axis = 1 THEN <<Sqrt(s) * Cos(theta), Sqrt(s) * Sin(theta)>>
    ELSE IF axis = 2 THEN <<s * Cos(theta), s * Sin(theta)>>
    ELSE <<s, theta>>

\* mutant of get_phi: the candidate below the nearest multiple is left out
get_phi_NoLower(xx, yy, phi_near) ==
    LET phi0 == Atan2(yy, xx)
        phi == IF phi0 < 0 THEN phi0 + TwoPi ELSE phi0
        nearest_multiple == Round(phi_near, TwoPi) * TwoPi
        opt2 == nearest_multiple + phi
        opt3 == nearest_multiple + TwoPi + phi
    IN IF Abs(opt2 - phi_near) <= Abs(opt3 - phi_near) THEN opt2 ELSE opt3

\* get_phi(x, y, phi_near)
get_phi(xx, yy, phi_near) ==
    LET phi0 == Atan2(yy, xx)
        phi == IF phi0 < 0 THEN phi0 + TwoPi ELSE phi0
        nearest_multiple == Round(phi_near, TwoPi) * TwoPi
        opt1 == nearest_multiple - TwoPi + phi
        opt2 == nearest_multiple + phi
        opt3 == nearest_multiple + TwoPi + phi
        dist1 == Abs(opt1 - phi_near)
        dist2 == Abs(opt2 - phi_near)
        dist3 == Abs(opt3 - phi_near)
        Min(a, b) == IF a <= b THEN a ELSE b
    IN IF dist1 <= Min(dist2, dist3) THEN opt1
       ELSE IF dist2 <= Min(dist1, dist3) THEN opt2
       ELSE opt3

\* -------------------------------------------------------- dense stepper
\* (xx, yy) turned by k quarter turns about the origin
Rot(xx, yy, k) ==
    LET m == k % TwoPi
    IN IF m = 0 THEN <<xx, yy>>
       ELSE IF m = 1 THEN <<-yy, xx>>
       ELSE IF m = 2 THEN <<-xx, -yy>>
       ELSE <<yy, -xx>>

\* the solution of the right-hand side r a time tau after the state yy
Flow(r, yy, tau) ==
    LET lin == [k \in 1..Len(yy) |-> yy[k] + r.dydt[k] * tau]
        xy == Rot(lin[1], lin[2], r.rot * tau)
    IN xy \o SubSeq(lin, 3, Len(yy))

\* dense.initialize(y, t, dt)
DenseInit(yy) == [t_old |-> 0, t |-> 0, y_old |-> yy, y |-> yy]

\* dense.do_step(rhs): one accepted step of size h; the step is [t_old, t]
DoStep(d, r, h) == [t_old |-> d.t, t |-> d.t + h, y_old |-> d.y, y |-> Flow(r, d.y, h)]

\* mutant of CalcState: the state at the end of the step, whatever tt is
CalcState_StepEnd(d, r, tt) == d.y

\* dense.calc_state(tt, .): the interpolant of the last step evaluated at tt
CalcState(d, r, tt) == Flow(r, d.y_old, tt - d.t_old)

\* ------------------------------------------------------------ root solve
\* toms748_solve(rootfun, a, b, fa, fb, roottol, rootmaxit): what it can
\* return, at the resolution of the time grid; rootfun is given by its
\* values on a..b.  The result is the bracket (root) and the value the call
\* leaves in its last argument, which it takes by reference: the number of
\* invocations of rootfun it made (its). Invocations are not counted one by
\* one: a search that closes the bracket makes some, written 1, and a search
\* that runs into the cap its makes all of them and returns the bracket still
\* open.  A zero end value returns that end and makes no invocation;
\* otherwise the bracket closes on a zero or a sign change of rootfun.  When
\* the supplied end values fa, fb are not those of rootfun, the bracket
\* closes on any place of [a, b].  What the library does with a cap of 0 is
\* not fixed by this source: both outcomes are kept.
Toms748(rootfun, a, b, fa, fb, its) ==
    IF fa = 0 THEN {[root |-> <<a, a>>, its |-> 0]}
    ELSE IF fb = 0 THEN {[root |-> <<b, b>>, its |-> 0]}
    ELSE LET zeros == {<<c, c>> : c \in {c \in a..b : rootfun[c] = 0}}
             flips == {<<c, c + 1>> : c \in {c \in a..(b - 1) :
                                                Sign(rootfun[c]) * Sign(rootfun[c + 1]) < 0}}
             any == {<<c, c + 1>> : c \in a..(b - 1)}
             closed == IF Sign(rootfun[a]) = Sign(fa) /\ Sign(rootfun[b]) = Sign(fb)
                       THEN zeros \cup flips
                       ELSE zeros \cup any
         IN {[root |-> r, its |-> 1] : r \in closed}
            \cup {[root |-> <<a, b>>, its |-> its]}

\* double troot = std::abs(f0) < std::abs(f1) ? root.first : root.second
TRoot(rootfun, root) ==
    IF Abs(rootfun[root[1]]) < Abs(rootfun[root[2]]) THEN root[1] ELSE root[2]

\* ----------------------------------------------------------------- state
VARIABLES
    pc,                 \* "idle", "loop" (inside the do-while), "exit", "done", "thrown",
                        \* "aborted" (a failed assert), "returned" (from get_phi)
    exception,          \* the exception that left the call, or "none"
    entry,              \* the entry point that was called
    vacuum, noK,        \* its arguments vacuum and noK
    outer,              \* its arguments vpars, phis_stop, vpars_stop, forget_exact_path
    rhs,                \* the right-hand side object: name, Size, axis, dydt
    tmax, phis, omegas, stopping_criteria, vpars,
    phis_stop, vpars_stop, flux, forget_exact_path,
    res, res_phi_hits,  \* the trajectory and the event list
    dense,              \* the dense stepper: last step [t_old, t] and its ends
    t, y, dt, iter, stop,
    phi_last, vpar_last, t_last,
    phi_current, vpar_current, t_current,
    rootmaxit,          \* the iteration count handed to and left by toms748_solve
    oob,                \* what lies in memory behind the last element of omegas
    fire,               \* what each stopping criterion answers at the end of the last step
    reads,              \* the components of y and ykeep (counted from 1) read so far
    phi_args,           \* the arguments (x, y, phi_near) of a direct call of get_phi
    phi_ret             \* what that call returned

args == <<entry, vacuum, noK, outer, rhs, tmax, phis, omegas, stopping_criteria, vpars,
          phis_stop, vpars_stop, flux, forget_exact_path>>

locals == <<res, res_phi_hits, dense, t, y, dt, iter, stop, phi_last, vpar_last, t_last,
            phi_current, vpar_current, t_current, rootmaxit, oob, fire, reads>>

direct == <<phi_args, phi_ret>>

vars == <<pc, exception, args, locals, direct>>

\* double omega = omegas[i]: operator[] does not check i, and a read past the
\* end of the vector sees what lies behind it
omega_at(i) == IF i <= Len(omegas) THEN omegas[i] ELSE oob

\* what solve gets for the parameters an entry point does not pass: vpars is
\* passed as {} and the three flags have the default value false
SolveDefaults ==
    [vpars |-> << >>, phis_stop |-> FALSE, vpars_stop |-> FALSE, forget_exact_path |-> FALSE]

\* ------------------------------------------------------------ event scans
\* mutant of VparCrossed: the two differences are not tested against zero
VparCrossed_SignOnly(vl, vc, vpar) == Sign(vl - vpar) # Sign(vc - vpar)

\* the crossing test of the v-parallel scan
VparCrossed(vl, vc, vpar) ==
    /\ vl - vpar # 0
    /\ vc - vpar # 0
    /\ Sign(vl - vpar) # Sign(vc - vpar)

\* mutant of PhiCrossed: the first step is not skipped
PhiCrossed_NoSkip(tl, pl, pc_, phi) == Floor(pl - phi, TwoPi) # Floor(pc_ - phi, TwoPi)

\* the crossing test of the phi scan, on the phases of the two step ends
PhiCrossed(tl, pl, pc_, phi) ==
    /\ tl # 0
    /\ Floor(pl - phi, TwoPi) # Floor(pc_ - phi, TwoPi)

\* mutant of PhaseShift: the midpoint is rounded down
PhaseShift_Floor(pl, pc_, phi) == Floor(pl + pc_ - 2 * phi, 2 * TwoPi) * TwoPi + phi

\* phase_shift = fak*2*M_PI + phi with fak = round(((pl + pc)/2 - phi)/(2*M_PI))
PhaseShift(pl, pc_, phi) == Round(pl + pc_ - 2 * phi, 2 * TwoPi) * TwoPi + phi

\* the condition of the assert of the phi scan
PhiAssert(pl, pc_, phase_shift) ==
    \/ pl <= phase_shift /\ phase_shift <= pc_
    \/ pc_ <= phase_shift /\ phase_shift <= pl

\* rootfun of the v-parallel scan for the target vpar, by its values on the step
VparRootfun(d, vpar) == [c \in d.t_old..d.t |-> CalcState(d, rhs, c)[4] - vpar]

\* rootfun of the phi scan, by its values on the step
PhiRootfun(d, pl_, omega, phase_shift) ==
    [c \in d.t_old..d.t |->
        LET temp == CalcState(d, rhs, c)
        IN IF flux THEN temp[3] - omega * c - phase_shift
           ELSE get_phi(temp[1], temp[2], pl_) - omega * c - phase_shift]

\* mutant of VparScan: the kind index is the target index, without |phis|
RECURSIVE VparScan_NoOffset(_, _, _, _, _)
VparScan_NoOffset(i, acc, d, vl, vc) ==
    IF i > Len(vpars) THEN {acc}
    ELSE IF VparCrossed(vl, vc, vpars[i])
    THEN LET rootfun == VparRootfun(d, vpars[i])
         IN UNION {
              LET troot == TRoot(rootfun, s.root)
                  ykeep == Canonical(rhs.axis, CalcState(d, rhs, troot))
                  hit == join(<<troot, i - 1>>, ykeep)
                  acc1 == [acc EXCEPT !.hits = Append(@, hit), !.rootmaxit = s.its]
              IN IF vpars_stop
                 THEN {[acc1 EXCEPT !.res = Append(@, join(<<troot>>, ykeep)), !.stop = TRUE]}
                 ELSE VparScan_NoOffset(i + 1, acc1, d, vl, vc)
              : s \in Toms748(rootfun, d.t_old, d.t, vl - vpars[i], vc - vpars[i],
                              acc.rootmaxit)}
    ELSE VparScan_NoOffset(i + 1, acc, d, vl, vc)

\* The v-parallel loop from target i on: the states it can end in.  acc holds
\* res, res_phi_hits (hits), stop, rootmaxit and aborted.
RECURSIVE VparScan(_, _, _, _, _)
VparScan(i, acc, d, vl, vc) ==
    IF i > Len(vpars) THEN {acc}
    ELSE IF VparCrossed(vl, vc, vpars[i])
    THEN LET rootfun == VparRootfun(d, vpars[i])
         IN UNION {
              LET troot == TRoot(rootfun, s.root)
                  ykeep == Canonical(rhs.axis, CalcState(d, rhs, troot))
                  hit == join(<<troot, (i - 1) + Len(phis)>>, ykeep)
                  acc1 == [acc EXCEPT !.hits = Append(@, hit), !.rootmaxit = s.its]
              IN IF vpars_stop
                 THEN {[acc1 EXCEPT !.res = Append(@, join(<<troot>>, ykeep)), !.stop = TRUE]}
                 ELSE VparScan(i + 1, acc1, d, vl, vc)
              : s \in Toms748(rootfun, d.t_old, d.t, vl - vpars[i], vc - vpars[i],
                              acc.rootmaxit)}
    ELSE VparScan(i + 1, acc, d, vl, vc)

\* The phi loop from plane i on: the states it can end in.  tl, tc, pl_, pcur
\* are t_last, t_current, phi_last, phi_current.  A failed assert ends the
\* process (aborted).
RECURSIVE PhiScan(_, _, _, _, _, _, _)
PhiScan(i, acc, d, tl, tc, pl_, pcur) ==
    IF i > Len(phis) THEN {acc}
    ELSE LET omega == omega_at(i)
             phase_last == pl_ - omega * tl
             phase_current == pcur - omega * tc
         IN IF PhiCrossed(tl, phase_last, phase_current, phis[i])
            THEN LET phase_shift == PhaseShift(phase_last, phase_current, phis[i])
                     rootfun == PhiRootfun(d, pl_, omega, phase_shift)
                 IN IF ~PhiAssert(phase_last, phase_current, phase_shift)
                    THEN {[acc EXCEPT !.aborted = TRUE]}
                    ELSE UNION {
                         LET troot == TRoot(rootfun, s.root)
                             ykeep == Canonical(rhs.axis, CalcState(d, rhs, troot))
                             hit == join(<<troot, i - 1>>, ykeep)
                             acc1 == [acc EXCEPT !.hits = Append(@, hit), !.rootmaxit = s.its]
                         IN IF phis_stop
                            THEN {[acc1 EXCEPT !.res = Append(@, join(<<troot>>, ykeep)),
                                               !.stop = TRUE]}
                            ELSE PhiScan(i + 1, acc1, d, tl, tc, pl_, pcur)
                         : s \in Toms748(rootfun, d.t_old, d.t, phase_last - phase_shift,
                                         phase_current - phase_shift, acc.rootmaxit)}
            ELSE PhiScan(i + 1, acc, d, tl, tc, pl_, pcur)

\* mutant of CriteriaScan: no break after a criterion fired
RECURSIVE CriteriaScan_NoBreak(_, _, _, _, _)
CriteriaScan_NoBreak(i, acc, tt, yy, f) ==
    IF i > Len(stopping_criteria) THEN acc
    ELSE LET ykeep == Canonical(rhs.axis, yy)
         IN IF stopping_criteria[i] # "null" /\ f[i]
            THEN CriteriaScan_NoBreak(i + 1,
                    [acc EXCEPT !.stop = TRUE,
                                !.res = Append(@, join(<<tt>>, ykeep)),
                                !.hits = Append(@, join(<<tt, -1 - (i - 1)>>, ykeep))],
                    tt, yy, f)
            ELSE CriteriaScan_NoBreak(i + 1, acc, tt, yy, f)

\* The stopping-criteria loop from criterion i on at the step end (tt, yy);
\* f[i] is what criterion i returns when it is called.
RECURSIVE CriteriaScan(_, _, _, _, _)
CriteriaScan(i, acc, tt, yy, f) ==
    IF i > Len(stopping_criteria) THEN acc
    ELSE LET ykeep == Canonical(rhs.axis, yy)
         IN IF stopping_criteria[i] # "null" /\ f[i]
            THEN [acc EXCEPT !.stop = TRUE,
                             !.res = Append(@, join(<<tt>>, ykeep)),
                             !.hits = Append(@, join(<<tt, -1 - (i - 1)>>, ykeep))]
            ELSE CriteriaScan(i + 1, acc, tt, yy, f)

\* mutant of Scans: the phi scan runs before the v-parallel scan
Scans_PhiFirst(a0, d, tl, tc, pl_, pcur, vl, vc, f) ==
    {IF a2.aborted THEN a2 ELSE CriteriaScan(1, a2, d.t, d.y, f) :
        a2 \in UNION {VparScan(1, a1, d, vl, vc) : a1 \in PhiScan(1, a0, d, tl, tc, pl_, pcur)}}

\* the three scans of one pass, in the order of the loop body: the states
\* the pass can end in
Scans(a0, d, tl, tc, pl_, pcur, vl, vc, f) ==
    {IF a2.aborted THEN a2 ELSE CriteriaScan(1, a2, d.t, d.y, f) :
        a2 \in UNION {PhiScan(1, a1, d, tl, tc, pl_, pcur) : a1 \in VparScan(1, a0, d, vl, vc)}}

\* IterationStoppingCriterion(max_iter): fires when the step counter exceeds
\* max_iter
IterationStoppingCriterion(cap, it) == it > cap

\* the answers the stopping criteria can give when they are called with the
\* step counter it; a null entry is no criterion
FireVals(it) ==
    {f \in [1..Len(stopping_criteria) -> BOOLEAN] :
        \A i \in 1..Len(stopping_criteria) :
            /\ stopping_criteria[i] = "null" => ~f[i]
            /\ stopping_criteria[i] = "iter" => f[i] = IterationStoppingCriterion(max_iter, it)}

\* ----------------------------------------------------------------- solve
\* solve() up to the do-while: the declarations and dense.initialize
SolveInit(e, r, y0, tm, ph, om, sc, vp, ps, vs, fl, fg) ==
    /\ entry' = e
    /\ rhs' = r
    /\ tmax' = tm
    /\ phis' = ph
    /\ omegas' = om
    /\ stopping_criteria' = sc
    /\ vpars' = vp
    /\ phis_stop' = ps
    /\ vpars_stop' = vs
    /\ flux' = fl
    /\ forget_exact_path' = fg
    /\ res' = << >>
    /\ res_phi_hits' = << >>
    /\ dense' = DenseInit(y0)
    /\ t' = 0
    /\ y' = y0
    /\ dt' = 0
    /\ iter' = 0
    /\ stop' = FALSE
    /\ fire' = [i \in 1..Len(sc) |-> FALSE]
    /\ t_last' = 0
    /\ phi_last' = IF fl THEN y0[3] ELSE get_phi(y0[1], y0[2], Pi)
    /\ vpar_last' = IF fl THEN y0[4] ELSE 0
    \* phi_current, vpar_current, t_current are declared without a value.
    \* phi_current is assigned in every pass before it is read, and so are
    \* vpar_current and t_current when flux holds: what they held before
    \* cannot be seen and is written 0.  Without flux the last two are never
    \* assigned and every read sees what the declaration left there.  What
    \* vpar_current holds then goes to vpar_last and from there only into the
    \* tests of the v-parallel targets, and every trace without flux has no
    \* target: it cannot be seen either and is written 0.
    /\ phi_current' = 0
    /\ vpar_current' = 0
    /\ t_current' \in (IF fl THEN {0} ELSE Garbage)
    /\ rootmaxit' = RootMaxIt
    \* omegas is read at the indices of phis; what lies behind its end is
    \* seen only when it is the shorter of the two
    /\ oob' \in (IF Len(om) < Len(ph) THEN Garbage ELSE {0})
    /\ reads' = {}
    /\ pc' = "loop"
    /\ exception' = "none"
    /\ UNCHANGED direct

\* mutant of TopSample: the sample is appended in every pass
TopSample_Always(forget, r, tt, yy) == Append(r, join(<<tt>>, Canonical(rhs.axis, yy)))

\* the top of the loop body: the sample (t, ykeep) is appended to the
\* trajectory r unless forget_exact_path is set and t is not 0
TopSample(forget, r, tt, yy) ==
    IF ~forget \/ tt = 0
    THEN Append(r, join(<<tt>>, Canonical(rhs.axis, yy)))
    ELSE r

\* t_current, phi_current and vpar_current after the step d; tcur and vcur
\* are what t_current and vpar_current held before
TCurrent(d, tcur) == IF flux THEN d.t ELSE tcur

PhiCurrent(d) == IF flux THEN d.y[3] ELSE get_phi(d.y[1], d.y[2], phi_last)

VparCurrent(d, vcur) == IF flux THEN d.y[4] ELSE vcur

\* The components of the state arrays one pass reads by index, counted from
\* 1: y[2] and y[3] with flux and y[0] and y[1] without, and ykeep[0] to
\* ykeep[3] for the call of a criterion.  A null entry is not called, and
\* the first entry that is not null is called in every pass.  operator[]
\* does not check the index against Size.
ComponentsRead ==
    (IF flux THEN {3, 4} ELSE {1, 2})
    \cup (IF \E i \in 1..Len(stopping_criteria) : stopping_criteria[i] # "null"
          THEN {1, 2, 3, 4} ELSE {})

\* One pass of the loop body from the current state, with forget_exact_path
\* = forget, a step of size h and the answers f of the criteria: the values
\* of res, res_phi_hits, stop and rootmaxit it can end with, and whether an
\* assert ended it.  tl, tcur and
\* vcur are what t_last, t_current and vpar_current hold when it starts.
Pass(forget, h, f, tl, tcur, vcur) ==
    LET d == DoStep(dense, rhs, h)
        a0 == [res |-> TopSample(forget, res, t, y), hits |-> res_phi_hits,
               stop |-> stop, rootmaxit |-> rootmaxit, aborted |-> FALSE]
    IN Scans(a0, d, tl, TCurrent(d, tcur), phi_last, PhiCurrent(d),
             vpar_last, VparCurrent(d, vcur), f)

\* mutant of LoopTest: the loop goes on after a stop
LoopTest_IgnoreStop(tt, st) == tt < tmax

\* the condition of the do-while: while (t < tmax && !stop)
LoopTest(tt, st) == tt < tmax /\ ~st

\* one pass of the do-while body, with the test of the loop condition
Step ==
    /\ pc = "loop"
    /\ \E h \in 1..MaxDt :
        LET d == DoStep(dense, rhs, h)
            tc == TCurrent(d, t_current)
            pcur == PhiCurrent(d)
            vc == VparCurrent(d, vpar_current)
        IN /\ dense' = d
           /\ iter' = iter + 1
           /\ t' = d.t
           /\ y' = d.y
           /\ dt' = d.t - d.t_old
           /\ reads' = reads \cup ComponentsRead
           /\ t_current' = tc
           /\ phi_current' = pcur
           /\ vpar_current' = vc
           /\ t_last' = tc
           /\ phi_last' = pcur
           /\ vpar_last' = vc
           /\ \E f \in FireVals(iter + 1) :
               /\ fire' = f
               /\ \E a3 \in Pass(forget_exact_path, h, f, t_last, t_current,
                                 vpar_current) :
                   /\ res' = a3.res
                   /\ res_phi_hits' = a3.hits
                   /\ stop' = a3.stop
                   /\ rootmaxit' = a3.rootmaxit
                   /\ pc' = IF a3.aborted THEN "aborted"
                            ELSE IF LoopTest(d.t, a3.stop) THEN "loop" ELSE "exit"
                   /\ exception' = IF a3.aborted THEN "assert" ELSE exception
    /\ UNCHANGED <<args, oob, direct>>

\* mutant of Return: the sample at tmax is appended also after a stop
Return_AlwaysTmax ==
    /\ pc = "exit"
    /\ LET yy == CalcState(dense, rhs, tmax)
       IN /\ y' = yy
          /\ res' = Append(res, join(<<tmax>>, Canonical(rhs.axis, yy)))
    /\ pc' = "done"
    /\ UNCHANGED <<exception, args, res_phi_hits, dense, t, dt, iter, stop, phi_last, vpar_last, t_last,
                   phi_current, vpar_current, t_current, rootmaxit, oob, fire, reads, direct>>

\* after the loop: the sample at tmax on normal completion, then return
Return ==
    /\ pc = "exit"
    /\ IF ~stop
       THEN LET yy == CalcState(dense, rhs, tmax)
            IN /\ y' = yy
               /\ res' = Append(res, join(<<tmax>>, Canonical(rhs.axis, yy)))
       ELSE UNCHANGED <<y, res>>
    /\ pc' = "done"
    /\ UNCHANGED <<exception, args, res_phi_hits, dense, t, dt, iter, stop, phi_last, vpar_last, t_last,
                   phi_current, vpar_current, t_current, rootmaxit, oob, fire, reads, direct>>

\* ---------------------------------------------------------- entry points
\* The perturbed entry point and the Cartesian guiding-centre entry point are
\* also called with arguments that fit no trace: omega lists of another
\* length than the plane list and, for the first, a selector of no chart.
\* mutant of particle_guiding_center_boozer_tracing: noK is tested before
\* vacuum
particle_guiding_center_boozer_tracing_NoKFirst ==
    /\ pc = "idle"
    /\ \E stz \in StzVals, vtang \in VtangVals, tm \in 0..MaxT, mode \in ModeVals,
          zetas \in PhisVals, sc \in CriteriaVals, vp \in VparsVals,
          ps \in BOOLEAN, vs \in BOOLEAN, fg \in BOOLEAN, axis \in AxisVals,
          zd \in ZetaDots, vd \in VparDots :
       \E om \in MatchedOmegas(zetas) :
        LET y0 == ChartInit(axis, stz[1], stz[2]) \o <<stz[3], vtang>>
            name == IF mode[2] THEN "GuidingCenterNoKBoozerRHS"
                    ELSE IF mode[1] THEN "GuidingCenterVacuumBoozerRHS"
                    ELSE "GuidingCenterBoozerRHS"
            r == [name |-> name, Size |-> 4, axis |-> axis, rot |-> 0, dydt |-> <<0, 0, zd, vd>>]
        IN /\ \/ mode = SweptMode
              \/ /\ tm = MaxT /\ zetas = << >> /\ sc = << >> /\ axis = 0
                 /\ vtang = -1 /\ zd = -1 /\ vd = 2
           /\ vacuum' = mode[1]
           /\ noK' = mode[2]
           /\ outer' = [vpars |-> vp, phis_stop |-> ps, vpars_stop |-> vs,
                        forget_exact_path |-> fg]
           /\ SolveInit("particle_guiding_center_boozer_tracing", r, y0, tm, zetas,
                        om, sc, vp, ps, vs, TRUE, fg)

particle_guiding_center_boozer_tracing ==
    /\ pc = "idle"
    /\ \E stz \in StzVals, vtang \in VtangVals, tm \in 0..MaxT, mode \in ModeVals,
          zetas \in PhisVals, sc \in CriteriaVals, vp \in VparsVals,
          ps \in BOOLEAN, vs \in BOOLEAN, fg \in BOOLEAN, axis \in AxisVals,
          zd \in ZetaDots, vd \in VparDots :
       \E om \in MatchedOmegas(zetas) :
        LET y0 == ChartInit(axis, stz[1], stz[2]) \o <<stz[3], vtang>>
            name == IF mode[1] THEN "GuidingCenterVacuumBoozerRHS"
                    ELSE IF mode[2] THEN "GuidingCenterNoKBoozerRHS"
                    ELSE "GuidingCenterBoozerRHS"
            r == [name |-> name, Size |-> 4, axis |-> axis, rot |-> 0, dydt |-> <<0, 0, zd, vd>>]
        IN /\ \/ mode = SweptMode
              \/ /\ tm = MaxT /\ zetas = << >> /\ sc = << >> /\ axis = 0
                 /\ vtang = -1 /\ zd = -1 /\ vd = 2
           /\ vacuum' = mode[1]
           /\ noK' = mode[2]
           /\ outer' = [vpars |-> vp, phis_stop |-> ps, vpars_stop |-> vs,
                        forget_exact_path |-> fg]
           /\ SolveInit("particle_guiding_center_boozer_tracing", r, y0, tm, zetas,
                        om, sc, vp, ps, vs, TRUE, fg)

particle_guiding_center_boozer_perturbed_tracing ==
    /\ pc = "idle"
    /\ \E stz \in StzVals, mo \in PerturbedVals, tm \in 0..MaxT, mode \in ModeVals,
          zetas \in PhisVals, sc \in CriteriaVals, vp \in VparsVals,
          ps \in BOOLEAN, vs \in BOOLEAN, fg \in BOOLEAN, axis \in AxisArgs :
       \E om \in OmegasVals(zetas) :
        LET y0 == ChartInit(axis, stz[1], stz[2]) \o <<stz[3], mo[1], 0>>
            name == IF mode[1] THEN "GuidingCenterVacuumBoozerPerturbedRHS"
                    ELSE "GuidingCenterNoKBoozerPerturbedRHS"
            r == [name |-> name, Size |-> 5, axis |-> axis, rot |-> 0,
                  dydt |-> <<0, 0, mo[2], mo[3], 1>>]
        IN /\ \/ mode = SweptMode
              \/ tm = MaxT /\ zetas = << >> /\ om = << >> /\ sc = << >> /\ axis = 0
           /\ vacuum' = mode[1]
           /\ noK' = mode[2]
           /\ outer' = [vpars |-> vp, phis_stop |-> ps, vpars_stop |-> vs,
                        forget_exact_path |-> fg]
           /\ SolveInit("particle_guiding_center_boozer_perturbed_tracing", r, y0, tm, zetas,
                        om, sc, vp, ps, vs, TRUE, fg)

\* mutant of particle_guiding_center_tracing: a non-vacuum request is traced
\* with the vacuum right-hand side
particle_guiding_center_tracing_NoThrow ==
    /\ pc = "idle"
    /\ \E xyz \in XyzVals, vtang \in VtangVals, tm \in 0..MaxT, vac \in BOOLEAN,
          ph \in PhisVals, sc \in CriteriaVals,
          w \in ZetaDots, vd \in VparDots :
       \E om \in OmegasVals(ph) :
        LET r == [name |-> "GuidingCenterVacuumRHS", Size |-> 4, axis |-> 0, rot |-> w,
                  dydt |-> <<0, 0, 0, vd>>]
        IN /\ vacuum' = vac
           /\ noK' = FALSE
           /\ outer' = SolveDefaults
           /\ SolveInit("particle_guiding_center_tracing", r, xyz \o <<vtang>>, tm, ph,
                        om, sc, << >>, FALSE, FALSE, FALSE, FALSE)

\* the guiding-centre trace in Cartesian coordinates; a non-vacuum request
\* throws std::logic_error
particle_guiding_center_tracing ==
    /\ pc = "idle"
    /\ \E xyz \in XyzVals, vtang \in VtangVals, tm \in 0..MaxT, vac \in BOOLEAN,
          ph \in PhisVals, sc \in CriteriaVals,
          w \in ZetaDots, vd \in VparDots :
       \E om \in OmegasVals(ph) :
        /\ vacuum' = vac
        /\ noK' = FALSE
        /\ outer' = SolveDefaults
        /\ IF vac
           THEN LET r == [name |-> "GuidingCenterVacuumRHS", Size |-> 4, axis |-> 0, rot |-> w,
                          dydt |-> <<0, 0, 0, vd>>]
                IN SolveInit("particle_guiding_center_tracing", r, xyz \o <<vtang>>, tm, ph,
                             om, sc, << >>, FALSE, FALSE, FALSE, FALSE)
           ELSE /\ pc' = "thrown"
                /\ exception' = "logic_error"
                /\ entry' = "particle_guiding_center_tracing"
                /\ UNCHANGED <<rhs, tmax, phis, omegas, stopping_criteria, vpars,
                               phis_stop, vpars_stop, flux, forget_exact_path, locals,
                               direct>>

particle_fullorbit_tracing ==
    /\ pc = "idle"
    /\ \E xyz \in XyzVals, v_init \in VInitVals, tm \in 0..MaxT,
          ph \in PhisVals, sc \in CriteriaVals, w \in ZetaDots :
        LET r == [name |-> "FullorbitRHS", Size |-> 6, axis |-> 0, rot |-> w,
                  dydt |-> <<0, 0, v_init[3], 0, 0, 0>>]
        IN /\ vacuum' = FALSE
           /\ noK' = FALSE
           /\ outer' = SolveDefaults
           /\ SolveInit("particle_fullorbit_tracing", r, xyz \o v_init, tm, ph,
                        [i \in 1..Len(ph) |-> 0], sc, << >>, FALSE, FALSE, FALSE, FALSE)

fieldline_tracing ==
    /\ pc = "idle"
    /\ \E xyz \in XyzVals, tm \in 0..MaxT, ph \in PhisVals, sc \in CriteriaVals,
          w \in ZetaDots :
        LET r == [name |-> "FieldlineRHS", Size |-> 3, axis |-> 0, rot |-> w,
                  dydt |-> <<0, 0, 1>>]
        IN /\ vacuum' = FALSE
           /\ noK' = FALSE
           /\ outer' = SolveDefaults
           /\ SolveInit("fieldline_tracing", r, xyz, tm, ph,
                        [i \in 1..Len(ph) |-> 0], sc, << >>, FALSE, FALSE, FALSE, FALSE)

\* --------------------------------------------------------- specification
\* no call has been made
Idle ==
    /\ pc = "idle"
    /\ exception = "none"
    /\ entry = "none"
    /\ vacuum = FALSE
    /\ noK = FALSE
    /\ outer = SolveDefaults
    /\ rhs = [name |-> "none", Size |-> 0, axis |-> 0, rot |-> 0, dydt |-> << >>]
    /\ tmax = 0
    /\ phis = << >>
    /\ omegas = << >>
    /\ stopping_criteria = << >>
    /\ vpars = << >>
    /\ phis_stop = FALSE
    /\ vpars_stop = FALSE
    /\ flux = FALSE
    /\ forget_exact_path = FALSE
    /\ res = << >>
    /\ res_phi_hits = << >>
    /\ dense = DenseInit(<< >>)
    /\ t = 0
    /\ y = << >>
    /\ dt = 0
    /\ iter = 0
    /\ stop = FALSE
    /\ phi_last = 0
    /\ vpar_last = 0
    /\ t_last = 0
    /\ phi_current = 0
    /\ vpar_current = 0
    /\ t_current = 0
    /\ rootmaxit = 0
    /\ oob = 0
    /\ fire = << >>
    /\ reads = {}
    /\ phi_ret = 0

Init ==
    /\ Idle
    /\ phi_args = <<0, 0, 0>>

Next ==
    \/ particle_guiding_center_boozer_tracing
    \/ particle_guiding_center_boozer_perturbed_tracing
    \/ particle_guiding_center_tracing
    \/ particle_fullorbit_tracing
    \/ fieldline_tracing
    \/ Step
    \/ Return

Spec == Init /\ [][Next]_vars

\* ------------------------------------------------ the loop under fairness
\* The calls of the specification with fairness: the field-line traces
\* from one point at one rate and with no plane, with every tmax and criteria
\* list, and the Boozer traces of one motion with two v-parallel targets,
\* with every tmax, plane list, criteria list and pair of stop flags.
LiveSlice ==
    \/ /\ entry = "fieldline_tracing"
       /\ rhs.rot = 2
       /\ y = <<1, 0, 0>>
       /\ phis = << >>
    \/ /\ entry = "particle_guiding_center_boozer_tracing"
       /\ vacuum
       /\ ~noK
       /\ rhs.axis = 0
       /\ rhs.dydt = <<0, 0, -1, 2>>
       /\ y[4] = -1
       /\ vpars = <<2, 0>>
       /\ ~forget_exact_path

particle_guiding_center_boozer_tracing_live ==
    particle_guiding_center_boozer_tracing /\ LiveSlice'

fieldline_tracing_live ==
    fieldline_tracing /\ LiveSlice'

NextLive ==
    \/ particle_guiding_center_boozer_tracing_live
    \/ fieldline_tracing_live
    \/ Step
    \/ Return

\* The call runs on one thread and nothing holds it up: a pass of the loop
\* that can be taken is taken, and so is the return.  Every accepted step
\* advances t by 1 at least.
SpecLive == Init /\ [][NextLive]_vars /\ WF_vars(Step) /\ WF_vars(Return)

\* ------------------------------------------------- direct call of get_phi
\* get_phi is bound as a function of the Python module and is called with
\* any point and any reference angle
get_phi_call ==
    /\ pc = "idle"
    /\ phi_ret' = get_phi(phi_args[1], phi_args[2], phi_args[3])
    /\ pc' = "returned"
    /\ UNCHANGED <<exception, args, locals, phi_args>>

InitGetPhi ==
    /\ Idle
    /\ phi_args \in {<<p[1], p[2], near>> : p \in PointVals, near \in NearVals}

NextGetPhi == get_phi_call

SpecGetPhi == InitGetPhi /\ [][NextGetPhi]_vars

\* ================================================================ claims
Last(sq) == sq[Len(sq)]

SampleTime(smp) == smp[1]
SampleState(smp) == SubSeq(smp, 2, Len(smp))
HitTime(h) == h[1]
HitKind(h) == h[2]
HitState(h) == SubSeq(h, 3, Len(h))

IsPhiHit(h) == 0 <= HitKind(h) /\ HitKind(h) < Len(phis)
IsVparHit(h) == HitKind(h) >= Len(phis)
IsCriterionHit(h) == HitKind(h) < 0

\* an event whose emission set stop
IsTerminating(h) ==
    \/ IsCriterionHit(h)
    \/ IsVparHit(h) /\ vpars_stop
    \/ IsPhiHit(h) /\ phis_stop

\* the positions of the events the last pass appended, seen from a step
\* of the do-while
NewHits == (Len(res_phi_hits) + 1)..Len(res_phi_hits')

\* the samples the passes of the loop have appended at their top
TopSamples == IF forget_exact_path THEN 1 ELSE iter

\* C1: the times of the trajectory samples are strictly increasing in list
\* order, in every trace.
C1_TrajectoryStrictlyIncreasing ==
    \A i \in 1..(Len(res) - 1) : SampleTime(res[i]) < SampleTime(res[i + 1])

\* C2: when solve has returned without a stop, the last sample is the dense
\* output at tmax, appended exactly once after the per-pass samples; when a
\* stop condition fired (also at t = tmax) the last sample is the one of the
\* last event that set stop, and the only samples after the per-pass ones
\* are those of the events that set stop: no tmax sample is appended.
C2_LastSampleTmaxOrStop ==
    pc = "done" =>
        IF ~stop
        THEN /\ Last(res) = <<tmax>> \o Canonical(rhs.axis, Flow(rhs, dense.y_old, tmax - dense.t_old))
             /\ Len(res) = TopSamples + 1
        ELSE LET term == {k \in 1..Len(res_phi_hits) : IsTerminating(res_phi_hits[k])}
                 last == CHOOSE k \in term : \A j \in term : j <= k
             IN /\ term # {}
                /\ Last(res) = <<HitTime(res_phi_hits[last])>> \o HitState(res_phi_hits[last])
                /\ Len(res) = TopSamples + Cardinality(term)

\* C2 witness: a stopping criterion fired exactly at t = tmax and solve returned
C2_Witness ==
    /\ pc = "done"
    /\ stop
    /\ t = tmax
    /\ IsCriterionHit(Last(res_phi_hits))
    /\ SampleTime(Last(res)) = tmax

\* C3: every event time lies in the integration interval, 0 <= t_e <= tmax.
C3_EventTimesWithinTmax ==
    \A k \in 1..Len(res_phi_hits) :
        0 <= HitTime(res_phi_hits[k]) /\ HitTime(res_phi_hits[k]) <= tmax

\* C4: every v-parallel or phi event a pass appends has its time inside the
\* step [t_old, t] of that pass, and its state is the motion of that step
\* from its start, evaluated at the event time and made canonical.
C4_EventFromOwnStep ==
    [][\A k \in NewHits :
        LET h == res_phi_hits'[k]
        IN HitKind(h) >= 0 =>
            /\ dense'.t_old <= HitTime(h)
            /\ HitTime(h) <= dense'.t
            /\ HitState(h) = Canonical(rhs.axis, Flow(rhs, dense'.y_old, HitTime(h) - dense'.t_old))]_vars

\* C4 witness: an event strictly inside the last step, with a state that is
\* the state of neither end of the step
C4_Witness ==
    \E k \in 1..Len(res_phi_hits) :
        LET h == res_phi_hits[k]
        IN /\ HitKind(h) >= 0
           /\ dense.t_old < HitTime(h)
           /\ HitTime(h) < dense.t
           /\ HitState(h) # Canonical(rhs.axis, dense.y)
           /\ HitState(h) # Canonical(rhs.axis, dense.y_old)

\* C5: the kind index of an event names its source: index i < |phis| is a
\* crossing of plane i in that pass, index |phis| + i a crossing of
\* v-parallel target i in that pass, index -1-i the firing of the non-null
\* criterion i at the end of that pass; there is no other index.
C5_KindIndexNamesSource ==
    [][\A k \in NewHits :
        LET h == res_phi_hits'[k]
            kind == HitKind(h)
        IN \/ /\ 0 <= kind
              /\ kind < Len(phis)
              /\ PhiCrossed(t_last, phi_last - omega_at(kind + 1) * t_last,
                            phi_last' - omega_at(kind + 1) * t_last', phis[kind + 1])
           \/ /\ Len(phis) <= kind
              /\ kind < Len(phis) + Len(vpars)
              /\ VparCrossed(vpar_last, vpar_last', vpars[kind - Len(phis) + 1])
           \/ /\ kind < 0
              /\ -kind <= Len(stopping_criteria)
              /\ stopping_criteria[-kind] # "null"
              /\ fire'[-kind]]_vars

\* C5 witness: a trace with an event of each of the three sources
C5_Witness ==
    /\ \E k \in 1..Len(res_phi_hits) : IsPhiHit(res_phi_hits[k])
    /\ \E k \in 1..Len(res_phi_hits) : IsVparHit(res_phi_hits[k]) /\ HitKind(res_phi_hits[k]) > Len(phis)
    /\ \E k \in 1..Len(res_phi_hits) : HitKind(res_phi_hits[k]) < -1

\* C6: with phis_stop (vpars_stop) set, the first phi (v-parallel) crossing
\* ends the trace: its event is the last event and its sample the last sample.
C6_CrossingStopEndsTrace ==
    \A k \in 1..Len(res_phi_hits) :
        LET h == res_phi_hits[k]
        IN (IsVparHit(h) /\ vpars_stop) \/ (IsPhiHit(h) /\ phis_stop) =>
            /\ k = Len(res_phi_hits)
            /\ Last(res) = <<HitTime(h)>> \o HitState(h)

\* C7: the first non-null criterion i that answers true at the end of a pass
\* appends one sample (t, canonical y) and one event (t, -1-i, canonical y),
\* both last in their lists; no later criterion adds an event, no further
\* step is taken, and a trace holds at most one event of negative index.
C7_FirstCriterionStops ==
    LET firing == {i \in 1..Len(stopping_criteria) : stopping_criteria[i] # "null" /\ fire[i]}
        negative == {k \in 1..Len(res_phi_hits) : IsCriterionHit(res_phi_hits[k])}
    IN pc \in {"loop", "exit", "done"} =>
        IF firing = {}
        THEN negative = {}
        ELSE LET i == CHOOSE i \in firing : \A j \in firing : i <= j
             IN /\ negative = {Len(res_phi_hits)}
                /\ Last(res_phi_hits) = <<t, -1 - (i - 1)>> \o Canonical(rhs.axis, dense.y)
                /\ Last(res) = <<t>> \o Canonical(rhs.axis, dense.y)
                /\ stop
                /\ pc # "loop"

\* C7 witness: two criteria answer true at the end of the same pass
C7_Witness ==
    /\ pc = "done"
    /\ Cardinality({i \in 1..Len(stopping_criteria) : fire[i]}) = 2
    /\ Len(res_phi_hits) >= 1

\* the place of an event in the order of the loop body
ScanRank(h) == IF IsCriterionHit(h) THEN 2 ELSE IF IsPhiHit(h) THEN 1 ELSE 0

\* C8: the events of one pass are appended in the order v-parallel events
\* (by target index), phi events (by plane index), criterion event.
C8_OrderWithinStep ==
    [][\A a, b \in NewHits :
        a < b =>
            LET ha == res_phi_hits'[a]
                hb == res_phi_hits'[b]
            IN /\ ScanRank(ha) <= ScanRank(hb)
               /\ ScanRank(ha) = ScanRank(hb) => HitKind(ha) < HitKind(hb)]_vars

\* C8 witness: the last pass emitted a v-parallel, a phi and a criterion event
C8_Witness ==
    /\ Len(res_phi_hits) >= 3
    /\ \E k \in 1..(Len(res_phi_hits) - 2) :
        /\ IsVparHit(res_phi_hits[k]) /\ HitTime(res_phi_hits[k]) > dense.t_old
        /\ IsPhiHit(res_phi_hits[k + 1]) /\ HitTime(res_phi_hits[k + 1]) > dense.t_old
        /\ IsCriterionHit(res_phi_hits[k + 2])

\* C9: the times of the event records are non-decreasing in list order.
C9_EventTimesMonotonic ==
    \A k \in 1..(Len(res_phi_hits) - 1) :
        HitTime(res_phi_hits[k]) <= HitTime(res_phi_hits[k + 1])

\* C10: with forget_exact_path the returned trajectory has exactly two
\* samples, the initial one at t = 0 and one terminal sample.
C10_ForgetExactPathTwoSamples ==
    pc = "done" /\ forget_exact_path =>
        /\ Len(res) = 2
        /\ SampleTime(res[1]) = 0

\* the trajectory r without its sample at position k
Without(r, k) == SubSeq(r, 1, k - 1) \o SubSeq(r, k + 1, Len(r))

\* C11: a pass with forget_exact_path set and the same pass without it (same
\* state, same step, same answers of the criteria) end with the same events,
\* the same stop and the same samples, but for the sample of the top of the
\* pass, which the pass without the flag appends when t > 0.  The flag is
\* read nowhere else, so two runs of a trace that differ in the flag alone
\* and take the same steps keep this relation from pass to pass.
C11_ForgetKeepsEventsDropsSamples ==
    pc = "loop" =>
        \A h \in 1..MaxDt : \A f \in FireVals(iter + 1) :
            LET on == Pass(TRUE, h, f, t_last, t_current, vpar_current)
                off == Pass(FALSE, h, f, t_last, t_current, vpar_current)
                top == Len(res) + 1
            IN IF t = 0
               THEN on = off
               ELSE /\ \A a \in off : a.res[top] = <<t>> \o Canonical(rhs.axis, y)
                    /\ on = {[a EXCEPT !.res = Without(a.res, top)] : a \in off}

\* C11 witness: a returned trace with the flag set that took two passes or
\* more, recorded events and kept two samples
C11_Witness ==
    /\ pc = "done"
    /\ forget_exact_path
    /\ iter >= 2
    /\ Len(res_phi_hits) >= 1
    /\ Len(res) = 2

\* C12: a trace called with tmax = 0 returns exactly one sample, at t = 0,
\* and no event.
C12_TmaxZeroSingleSample ==
    pc = "done" /\ tmax = 0 =>
        /\ Len(res) = 1
        /\ SampleTime(res[1]) = 0
        /\ res_phi_hits = << >>

\* C13: a trace whose only stop condition is the iteration criterion with
\* cap max_iter, and that was stopped by it, returns at most max_iter + 1
\* samples and exactly one event of negative index.
C13_IterationCapBoundsSamples ==
    (/\ pc = "done"
     /\ stopping_criteria = <<"iter">>
     /\ ~phis_stop
     /\ ~vpars_stop
     /\ stop) =>
        /\ Len(res) <= max_iter + 1
        /\ Cardinality({k \in 1..Len(res_phi_hits) : IsCriterionHit(res_phi_hits[k])}) = 1

\* the pass that ends in the primed state reports a crossing of v-parallel
\* target i
VparReported(i) == \E k \in NewHits : HitKind(res_phi_hits'[k]) = Len(phis) + (i - 1)

\* v-parallel minus target i lies strictly on opposite sides of zero at the
\* two ends of the step of that pass
VparOpposite(i) == (dense'.y_old[4] - vpars[i]) * (dense'.y[4] - vpars[i]) < 0

\* C14 as claimed: in a step, a crossing of v-parallel target i is reported
\* if and only if v-parallel minus the target is non-zero at both ends of the
\* step and of opposite signs.
C14_VparCrossingIffOppositeSigns ==
    [][pc = "loop" /\ flux =>
        \A i \in 1..Len(vpars) : VparReported(i) <=> VparOpposite(i)]_vars

\* C14 as amended: in a step, a crossing of v-parallel target i is reported
\* if and only if v-parallel minus the target is non-zero at both ends of the
\* step and of opposite signs and, when vpars_stop is set, no target of lower
\* index was crossed in the same step; a target equal to the initial
\* v-parallel gives no event on the first step.
C14_VparCrossingIffOppositeSignsUnlessStopped ==
    [][pc = "loop" /\ flux =>
        \A i \in 1..Len(vpars) :
            VparReported(i) <=>
                /\ VparOpposite(i)
                /\ vpars_stop => \A j \in 1..(i - 1) : ~VparOpposite(j)]_vars

\* C14 witness: after the first step of a trace that started on its second
\* target, the first target is reported and the second is not
C14_Witness ==
    /\ flux
    /\ iter = 1
    /\ Len(vpars) = 2
    /\ dense.y_old[4] = vpars[2]
    /\ dense.y[4] # vpars[2]
    /\ \E k \in 1..Len(res_phi_hits) : HitKind(res_phi_hits[k]) = Len(phis)
    /\ ~\E k \in 1..Len(res_phi_hits) : HitKind(res_phi_hits[k]) = Len(phis) + 1

\* C15: no phi event is emitted in the first step of a trace.
C15_NoPhiEventInFirstStep ==
    iter <= 1 => \A k \in 1..Len(res_phi_hits) : ~IsPhiHit(res_phi_hits[k])

\* C15 witness: a Cartesian trace that started exactly on a plane and left
\* it downwards in its first step
C15_Witness ==
    /\ pc # "idle"
    /\ ~flux
    /\ iter = 1
    /\ \E i \in 1..Len(phis) :
        /\ i <= Len(omegas)
        /\ omegas[i] = 0
        /\ get_phi(dense.y_old[1], dense.y_old[2], Pi) = phis[i]
        /\ Floor(phi_last - phis[i], TwoPi) # Floor(0, TwoPi)

\* C16: particle_guiding_center_tracing called with vacuum = false throws:
\* no step is taken and nothing is returned.
C16_NonVacuumUnsupported ==
    entry = "particle_guiding_center_tracing" /\ ~vacuum =>
        /\ pc = "thrown"
        /\ exception = "logic_error"
        /\ iter = 0
        /\ res = << >>
        /\ res_phi_hits = << >>

\* C16 witness: the call with vacuum = false has thrown
C16_Witness ==
    /\ pc = "thrown"
    /\ entry = "particle_guiding_center_tracing"
    /\ ~vacuum
    /\ exception = "logic_error"

\* C17: a trace called with a plane list and an omega list of different
\* lengths ends at once with an invalid-argument error and returns nothing.
C17_LengthMismatchRejected ==
    entry # "none" /\ Len(phis) # Len(omegas) =>
        /\ pc = "thrown"
        /\ exception = "invalid_argument"
        /\ iter = 0
        /\ res = << >>

\* C18: a Boozer trace called with a chart selector outside {0, 1, 2} ends at
\* once with an invalid-argument error and returns nothing.
C18_InvalidAxisRejected ==
    entry # "none" /\ rhs.axis \notin AxisVals =>
        /\ pc = "thrown"
        /\ exception = "invalid_argument"
        /\ iter = 0
        /\ res = << >>

\* the time troot of the step d lies at a root of rootfun, to the resolution
\* of the time grid: rootfun is zero there or changes sign within one cell
Converged(rootfun, d, troot) ==
    \/ rootfun[troot] = 0
    \/ troot > d.t_old /\ rootfun[troot - 1] * rootfun[troot] < 0
    \/ troot < d.t /\ rootfun[troot] * rootfun[troot + 1] < 0

\* C19: a root solve that runs into its iteration cap raises a numeric error:
\* a pass either throws or records its v-parallel and phi events at times
\* where the root solve has converged.  Stated for the traces with flux,
\* where every value the scans read has been assigned.
C19_UnconvergedRootRaises ==
    [][pc = "loop" /\ flux =>
        \/ pc' = "thrown" /\ exception' = "numeric_error"
        \/ \A k \in NewHits :
            LET h == res_phi_hits'[k]
                kind == HitKind(h)
            IN IF kind >= Len(phis)
               THEN Converged(VparRootfun(dense', vpars[kind - Len(phis) + 1]), dense', HitTime(h))
               ELSE IF kind >= 0
               THEN LET omega == omega_at(kind + 1)
                        phase_last == phi_last - omega * t_last
                        phase_current == phi_last' - omega * t_last'
                        phase_shift == PhaseShift(phase_last, phase_current, phis[kind + 1])
                    IN Converged(PhiRootfun(dense', phi_last, omega, phase_shift), dense', HitTime(h))
               ELSE TRUE]_vars

\* the trajectories, event lists and stop flags of a set of pass results
Outputs(S) == {<<a.res, a.hits, a.stop>> : a \in S}

\* C20: two runs of a trace with the same inputs return the same lists.  The
\* runs take the same steps and get the same answers from the criteria, so
\* they can differ only in what the variables they never assign hold: in
\* every pass of a trace without flux, the lists the pass can produce are
\* the same whatever t_current holds (t_last holds the same from the second
\* pass on).
C20_SameInputsSameOutputs ==
    pc = "loop" /\ ~flux =>
        \A h \in 1..MaxDt : \A f \in FireVals(iter + 1) : \A g \in Garbage :
            Outputs(Pass(forget_exact_path, h, f, IF iter = 0 THEN 0 ELSE g, g, vpar_current))
                = Outputs(Pass(forget_exact_path, h, f, t_last, t_current, vpar_current))

\* the angles congruent to atan2(yy, xx) modulo 2 pi, as far out as any
\* reference angle of a direct call and further
Lifts(xx, yy) == {Atan2(yy, xx) + k * TwoPi : k \in (-MaxNear)..MaxNear}

\* C21: get_phi(x, y, ref) returns an angle congruent to atan2(y, x) modulo
\* 2 pi that is the closest such angle to ref, so that it differs from ref
\* by at most pi.
C21_GetPhiClosestLift ==
    pc = "returned" =>
        /\ phi_ret \in Lifts(phi_args[1], phi_args[2])
        /\ \A a \in Lifts(phi_args[1], phi_args[2]) :
              Abs(phi_ret - phi_args[3]) <= Abs(a - phi_args[3])
        /\ Abs(phi_ret - phi_args[3]) <= Pi

\* C21 witness: a call far from zero that returned the candidate below the
\* nearest multiple of 2 pi
C21_Witness ==
    /\ pc = "returned"
    /\ Abs(phi_args[3]) > TwoPi
    /\ phi_ret < Round(phi_args[3], TwoPi) * TwoPi
    /\ phi_ret # Atan2(phi_args[2], phi_args[1])

\* C22: whenever the phi scan of a step finds the floors of the two phases
\* about a plane different, the phase_shift it chooses lies between the two
\* phases, ends included: the assert holds, no trace is aborted, and the end
\* values handed to the root solve are of opposite sign or zero.
C22_PhaseShiftBetweenPhases ==
    [][pc = "loop" =>
        /\ pc' # "aborted"
        /\ \A i \in 1..Len(phis) :
            LET omega == omega_at(i)
                phase_last == phi_last - omega * t_last
                phase_current == phi_last' - omega * t_last'
                phase_shift == PhaseShift(phase_last, phase_current, phis[i])
            IN PhiCrossed(t_last, phase_last, phase_current, phis[i]) =>
                /\ PhiAssert(phase_last, phase_current, phase_shift)
                /\ (phase_last - phase_shift) * (phase_current - phase_shift) <= 0]_vars

\* C22 witness: a step of a trace with moving planes crossed a plane, the
\* phase falling by less than a full turn, and the event was recorded
C22_Witness ==
    /\ flux
    /\ iter >= 2
    /\ pc # "aborted"
    /\ \E i \in 1..Len(phis) :
        /\ i <= Len(omegas)
        /\ omegas[i] = 1
        /\ LET phase_last == dense.y_old[3] - omegas[i] * dense.t_old
               phase_current == dense.y[3] - omegas[i] * dense.t
           IN /\ PhiCrossed(dense.t_old, phase_last, phase_current, phis[i])
              /\ phase_current < phase_last
              /\ phase_last - phase_current < TwoPi
        /\ \E k \in 1..Len(res_phi_hits) :
            /\ HitKind(res_phi_hits[k]) = i - 1
            /\ HitTime(res_phi_hits[k]) >= dense.t_old

\* C23: in every trace, with and without flux, the phi scan of each step
\* after the first sees in t_last the start time and in t_current the end
\* time of that step, and t_last is not 0, so that its detection is active.
C23_ScanTimesAreStepTimes ==
    [][pc = "loop" /\ iter >= 1 =>
        /\ t_last = dense'.t_old
        /\ t_current' = dense'.t
        /\ t_last # 0]_vars

\* C24: for every size of the state, each component solve reads when it
\* scans planes or calls a stopping criterion exists in the state array.
C24_ReadsWithinState == reads \subseteq 1..rhs.Size

\* solve was called with flux = true and with the vpars, phis_stop,
\* vpars_stop and forget_exact_path the entry point was called with
HandedOn ==
    /\ flux
    /\ vpars = outer.vpars
    /\ phis_stop = outer.phis_stop
    /\ vpars_stop = outer.vpars_stop
    /\ forget_exact_path = outer.forget_exact_path

\* C25: the Boozer entry points select the right-hand side from the mode
\* flags alone.  The unperturbed trace uses the vacuum one when vacuum is
\* set, the NoK one when only noK is set and the full one when neither is;
\* the perturbed trace uses the perturbed vacuum one when vacuum is set and
\* the perturbed NoK one when only noK is set.  Every call passes flux =
\* true and the caller's vpars, phis_stop, vpars_stop, forget_exact_path.
C25_ModeSelectsRhs ==
    /\ entry = "particle_guiding_center_boozer_tracing" =>
        /\ rhs.name = IF vacuum THEN "GuidingCenterVacuumBoozerRHS"
                      ELSE IF noK THEN "GuidingCenterNoKBoozerRHS"
                      ELSE "GuidingCenterBoozerRHS"
        /\ HandedOn
    /\ entry = "particle_guiding_center_boozer_perturbed_tracing" =>
        /\ vacuum => rhs.name = "GuidingCenterVacuumBoozerPerturbedRHS"
        /\ ~vacuum /\ noK => rhs.name = "GuidingCenterNoKBoozerPerturbedRHS"
        /\ HandedOn

\* C25 witness: an unperturbed trace called with vacuum and noK both set has
\* returned, with targets and the three flags set by the caller
C25_Witness ==
    /\ pc = "done"
    /\ entry = "particle_guiding_center_boozer_tracing"
    /\ vacuum
    /\ noK
    /\ outer.vpars # << >>
    /\ outer.phis_stop
    /\ outer.vpars_stop
    /\ outer.forget_exact_path

\* the number of events recorded for v-parallel target i
VparEvents(i) ==
    Cardinality({k \in 1..Len(res_phi_hits) : HitKind(res_phi_hits[k]) = Len(phis) + (i - 1)})

\* C26: in a trace with flux and without stop flags, when v-parallel at the
\* ends of the steps has passed from strictly one side of a target to
\* strictly the other, be it through the target itself at the end of a step
\* in between, exactly one event is recorded for that target.  In every
\* motion of the model v-parallel rises all the time, so a target is passed
\* once at most: its events are never more than one, and exactly one once
\* the first and the last end of the steps taken lie on its two sides.
C26_OneEventPerPassage ==
    (/\ flux
     /\ ~phis_stop
     /\ ~vpars_stop
     /\ iter >= 1
     /\ pc \in {"loop", "exit", "done"}) =>
        \A i \in 1..Len(vpars) :
            /\ VparEvents(i) <= 1
            /\ (res[1][5] - vpars[i]) * (dense.y[4] - vpars[i]) < 0 => VparEvents(i) = 1

\* C27: solve returns in the end.  The loop takes one step at least and is
\* left after the first step at whose end t >= tmax holds or stop is set:
\* while it goes on neither holds, and once it is left no step is taken.
C27_SolveReturns ==
    /\ [](pc = "loop" /\ iter >= 1 => t < tmax /\ ~stop)
    /\ [](pc \in {"exit", "done"} => iter >= 1 /\ (t >= tmax \/ stop))
    /\ [][(pc \in {"exit", "done"}) => (iter' = iter)]_vars
    /\ (pc = "loop" ~> pc = "done")

\* C27 witness: a trace has returned after as many steps as tmax allows,
\* without a stop
C27_Witness ==
    /\ pc = "done"
    /\ ~stop
    /\ tmax = MaxT
    /\ iter = MaxT
    /\ t = tmax

====
